---- MODULE Spec2Model ----
(***************************************************************************)
(* A model of the FastEstimator Network execution engine                   *)
(* (fastestimator/network.py): the dependency analysis of an op list, the  *)
(* Network factory, run_step of the two backends, and build/_fe_compile;   *)
(* and of the ReduceLROnPlateau, Accuracy and ConfusionMatrix traces and    *)
(* the OpDataset wrapper.                                                  *)
(*                                                                         *)
(* Python values are modelled as follows.                                  *)
(*   - a key name is a string; Python's None, where it stands for a key,   *)
(*     is the string None;                                                 *)
(*   - the inputs/outputs attribute of an op is kept in the form the user  *)
(*     gave it (None, a str, or a list of str), as a record [t, ks];       *)
(*   - a mapping (dict) is a function whose DOMAIN is its key set;         *)
(*   - a raised exception is a non-empty err field of the returned record. *)
(***************************************************************************)
EXTENDS Integers, Sequences, FiniteSets, TLC

VARIABLES
    ops,        \* the op list handed to the constructor under test
    network,    \* the engine object (or the record of a failed construction)
    cuda,       \* torch.cuda.is_available()
    batch,      \* the caller's batch mapping
    state,      \* the caller's state mapping
    ret,        \* outcome of the last call (its return value or its exception)
    models,     \* the trainable model objects: backend, optimizer, fe_compiled
    trace,      \* the trace object under test (its attributes)
    events,     \* the callbacks delivered to the trace so far, oldest first
    dataset     \* the items of the dataset an OpDataset wraps

vars == <<ops, network, cuda, batch, state, ret, models, trace, events, dataset>>

(***************************************************************************)
(* Bounds                                                                  *)
(***************************************************************************)
MaxOps == 2          \* longest op list of the dependency-analysis runs

(***************************************************************************)
(* Generic helpers                                                         *)
(***************************************************************************)
Range(s) == {s[i] : i \in DOMAIN s}

SeqsUpTo(S, n) == UNION {[1..m -> S] : m \in 0..n}

EmptyMap == <<>>

(***************************************************************************)
(* Keys and key declarations                                               *)
(***************************************************************************)
None == "None"

\* iterating a Python str yields its characters
CharsOf(k) == IF k = "xy" THEN {"x", "y"} ELSE {k}

KNone == [t |-> "none", ks |-> <<>>]
KStr(k) == [t |-> "str", ks |-> <<k>>]
KList(s) == [t |-> "list", ks |-> s]

\* to_list(data): a list stays, anything else is wrapped ([None] for None)
to_list(d) ==
    IF d.t = "list" THEN d.ks
    ELSE IF d.t = "none" THEN <<None>>
    ELSE d.ks

\* Python truthiness of an inputs/outputs attribute
Truthy(d) == d.ks # <<>>

(***************************************************************************)
(* Ops and Schedulers                                                      *)
(***************************************************************************)
NoModel == "no_model"

\* a TensorOp (kind "op"), ModelOp or UpdateOp
MkOp(kind, fn, inputs, outputs, mode, model) ==
    [kind |-> kind, fn |-> fn, inputs |-> inputs, outputs |-> outputs,
     mode |-> mode, model |-> model, epoch_dict |-> <<>>]

\* the None value of a Scheduler's epoch_dict
NoneOp == MkOp("none", "", KNone, KNone, {}, NoModel)

\* a Scheduler; epoch_dict lists its values in the order of epoch_dict.values()
MkScheduler(variants) ==
    [kind |-> "scheduler", fn |-> "", inputs |-> KNone, outputs |-> KNone,
     mode |-> {}, model |-> NoModel, epoch_dict |-> variants]

IsScheduler(op) == op.kind = "scheduler"
IsNone(op) == op.kind = "none"
IsModelOp(op) == op.kind \in {"modelop", "updateop"}

\* [x for x in values if not x is None], in order
RECURSIVE NotNoneFrom(_, _)
NotNoneFrom(values, i) ==
    IF i > Len(values) THEN <<>>
    ELSE (IF IsNone(values[i]) THEN <<>> ELSE <<values[i]>>) \o NotNoneFrom(values, i + 1)

NonNoneVariants(op) == NotNoneFrom(op.epoch_dict, 1)

(***************************************************************************)
(* BaseNetwork: the dependency analysis                                    *)
(***************************************************************************)
Ok(v) == [err |-> "", val |-> v]
Raise(e) == [err |-> e, val |-> {}]

\* set(key for key in to_list(op.inputs) if not key in produced_keys)
OpInputKeys(op, produced_keys) == Range(to_list(op.inputs)) \ produced_keys

\* the keys a Scheduler adds to input_keys: every non-None variant's inputs
\* that are not in produced_keys
SchedulerInputKeys(op, produced_keys) ==
    UNION {OpInputKeys(v, produced_keys) : v \in Range(NonNoneVariants(op))}

\* keys_lists = [x.outputs for x in op.epoch_dict.values() if not x is None]
SchedulerOutputLists(op) ==
    [j \in DOMAIN NonNoneVariants(op) |-> NonNoneVariants(op)[j].outputs]

\* set.update(d) with the attribute d as it is: None is not iterable, a str
\* is iterated by character, a list by element
UpdateWith(produced_keys, d) ==
    IF d.t = "none" THEN Raise("TypeError")
    ELSE IF d.t = "str" THEN Ok(produced_keys \cup CharsOf(d.ks[1]))
    ELSE Ok(produced_keys \cup Range(d.ks))

\* the produced_keys after a Scheduler; keys_lists[0] of an empty list raises
SchedulerProduced(op, produced_keys) ==
    LET keys_lists == SchedulerOutputLists(op) IN
    IF \A j \in DOMAIN keys_lists : keys_lists[j] = keys_lists[1]
    THEN IF keys_lists = <<>> THEN Raise("IndexError")
         ELSE UpdateWith(produced_keys, keys_lists[1])
    ELSE Ok(produced_keys)

\* a variant of OpProduced that forgets the outputs of the op
OpProduced_Forgets(op, produced_keys) == produced_keys

\* produced_keys.update(to_list(op.outputs))
OpProduced(op, produced_keys) == produced_keys \cup Range(to_list(op.outputs))

\* the loop of get_effective_input_keys from position i on
RECURSIVE EffectiveInputLoop(_, _, _, _)
EffectiveInputLoop(oplist, i, input_keys, produced_keys) ==
    IF i > Len(oplist) THEN Ok(input_keys \ {None})
    ELSE LET op == oplist[i] IN
         IF IsScheduler(op)
         THEN LET p == SchedulerProduced(op, produced_keys) IN
              IF p.err # "" THEN Raise(p.err)
              ELSE EffectiveInputLoop(oplist, i + 1,
                       input_keys \cup SchedulerInputKeys(op, produced_keys), p.val)
         ELSE EffectiveInputLoop(oplist, i + 1,
                  input_keys \cup OpInputKeys(op, produced_keys),
                  OpProduced(op, produced_keys))

get_effective_input_keys(oplist) == EffectiveInputLoop(oplist, 1, {}, {})

\* a variant of OutputKeysOf that counts a Scheduler only when its variants
\* declare the same outputs
OutputKeysOf_AgreedOnly(op) ==
    IF IsScheduler(op)
    THEN IF \A a, b \in Range(NonNoneVariants(op)) : a.outputs = b.outputs
         THEN UNION {Range(to_list(v.outputs)) : v \in Range(NonNoneVariants(op))}
         ELSE {}
    ELSE Range(to_list(op.outputs))

\* the output keys one element of the op list contributes
OutputKeysOf(op) ==
    IF IsScheduler(op)
    THEN UNION {Range(to_list(v.outputs)) : v \in Range(NonNoneVariants(op))}
    ELSE Range(to_list(op.outputs))

get_all_output_keys(oplist) ==
    (UNION {OutputKeysOf(oplist[i]) : i \in DOMAIN oplist}) \ {None}

\* a variant of BaseNetwork that starts with every output key as effective
BaseNetwork_OutputsPreset(strategy, oplist, modelset) ==
    LET eff == get_effective_input_keys(oplist) IN
    [status |-> IF eff.err # "" THEN "error" ELSE "ok", err |-> eff.err,
     strategy |-> strategy, ops |-> oplist, models |-> modelset,
     effective_inputs |-> eff.val, all_outputs |-> get_all_output_keys(oplist),
     effective_outputs |-> get_all_output_keys(oplist), device |-> "cpu"]

\* BaseNetwork.__init__: the engine object, or the exception of the analysis
BaseNetwork(strategy, oplist, modelset) ==
    LET eff == get_effective_input_keys(oplist) IN
    IF eff.err # "" THEN [status |-> "error", err |-> eff.err, strategy |-> strategy,
                          ops |-> oplist, models |-> modelset, effective_inputs |-> {},
                          all_outputs |-> {}, effective_outputs |-> {}, device |-> "cpu"]
    ELSE [status |-> "ok", err |-> "", strategy |-> strategy,
          ops |-> oplist, models |-> modelset, effective_inputs |-> eff.val,
          all_outputs |-> get_all_output_keys(oplist), effective_outputs |-> {},
          device |-> "cpu"]

NoNetwork ==
    [status |-> "none", err |-> "", strategy |-> "", ops |-> <<>>, models |-> {},
     effective_inputs |-> {}, all_outputs |-> {}, effective_outputs |-> {},
     device |-> "cpu"]


(***************************************************************************)
(* Trainable model objects                                                 *)
(***************************************************************************)
ModelIds == {"m_tf", "m_torch", "m_torch2", "m_other"}

\* a model that has no optimizer attribute yet
NoOptimizer == [backend |-> "", kind |-> "", id |-> "", zero_grad |-> FALSE]

\* a model as its constructor leaves it
NewModel == [optimizer |-> NoOptimizer, fe_compiled |-> FALSE, device |-> "cpu"]

NewModels == [m \in ModelIds |-> NewModel]

(***************************************************************************)
(* Network(ops): the factory                                               *)
(***************************************************************************)
\* isinstance(model, tf.keras.Model) / isinstance(model, torch.nn.Module)
IsTFModel(m) == m \in {"m_tf"}
IsTorchModel(m) == m \in {"m_torch", "m_torch2"}

\* the models of one element of the op list
ModelsOf(op) ==
    IF IsScheduler(op)
    THEN {v.model : v \in {w \in Range(op.epoch_dict) : IsModelOp(w)}}
    ELSE IF IsModelOp(op) THEN {op.model} ELSE {}

CollectModels(oplist) == UNION {ModelsOf(oplist[i]) : i \in DOMAIN oplist}

\* the framework set built from the collected models
Frameworks(modelset) ==
    {f \in {"tensorflow", "pytorch"} :
        \E m \in modelset : IF IsTFModel(m) THEN f = "tensorflow"
                             ELSE IsTorchModel(m) /\ f = "pytorch"}

Failed(e) ==
    [status |-> "error", err |-> e, strategy |-> "", ops |-> <<>>, models |-> {},
     effective_inputs |-> {}, all_outputs |-> {}, effective_outputs |-> {},
     device |-> "cpu"]

TFNetwork(oplist, modelset) == BaseNetwork("TFNetwork", oplist, modelset)

\* TorchNetwork.__init__: the device is cuda:0 when cuda is available, and
\* then every model is moved to it; has_to tells whether the models that are
\* no torch modules have a to() method (else model.to raises)
TorchNetwork(oplist, modelset, cuda_available, has_to) ==
    LET base == BaseNetwork("TorchNetwork", oplist, modelset) IN
    IF base.status # "ok" \/ ~cuda_available THEN base
    ELSE IF ~has_to /\ \E m \in modelset : ~IsTorchModel(m)
         THEN Failed("AttributeError: to")
         ELSE [base EXCEPT !.device = "cuda"]

\* a variant of Network that takes the first framework it finds instead of
\* asserting that there is exactly one
Network_AnyFramework(oplist, cuda_available, has_to) ==
    LET modelset == CollectModels(oplist)
        framework == Frameworks(modelset)
    IN IF modelset = {} THEN Failed("AssertionError: cannot find model")
       ELSE IF "tensorflow" \in framework THEN TFNetwork(oplist, modelset)
       ELSE TorchNetwork(oplist, modelset, cuda_available, has_to)

Network(oplist, cuda_available, has_to) ==
    LET modelset == CollectModels(oplist)
        framework == Frameworks(modelset)
    IN IF modelset = {} THEN Failed("AssertionError: cannot find model")
       ELSE IF Cardinality(framework) # 1 THEN Failed("AssertionError: framework")
       ELSE IF framework = {"tensorflow"} THEN TFNetwork(oplist, modelset)
       ELSE TorchNetwork(oplist, modelset, cuda_available, has_to)

\* the model objects after Network(oplist): model.to(self.device) of
\* TorchNetwork.__init__ has moved the torch models it reached, which is all
\* of them unless a to() raised on the way (then any of them, in set order)
ModelsAfterNetwork(mods, oplist, net, cuda_available, reached) ==
    LET torch == {m \in CollectModels(oplist) : IsTorchModel(m)}
        moved == IF net.status = "ok" /\ net.device = "cuda" THEN torch
                 ELSE IF net.err = "AttributeError: to" THEN reached \cap torch
                 ELSE {}
    IN [m \in DOMAIN mods |-> IF m \in moved THEN [mods[m] EXCEPT !.device = "cuda"]
                                ELSE mods[m]]

(***************************************************************************)
(* Python values handled by run_step, as token sequences                   *)
(*   a tensor       <<device, name...>>                                    *)
(*   None           <<"None">>                                             *)
(*   a list         <<"[">> \o v1 \o <<",">> \o v2 \o <<"]">>             *)
(***************************************************************************)
PyNone == <<"None">>

Tensor(name) == <<"cpu", name>>

\* value.to(device)
To(v, device) == <<device>> \o Tail(v)

DeviceOf(v) == Head(v)

RECURSIVE PyListFrom(_, _)
PyListFrom(vals, i) ==
    IF i > Len(vals) THEN <<"]">>
    ELSE (IF i > 1 THEN <<",">> ELSE <<>>) \o vals[i] \o PyListFrom(vals, i + 1)

PyList(vals) == <<"[">> \o PyListFrom(vals, 1)

\* op.forward(data, state) of an op that returns: an opaque value that lives
\* on the accelerator when some part of its input does
Forward(op, data) ==
    <<IF "cuda" \in Range(data) THEN "cuda" ELSE "cpu">> \o <<op.fn, "(">> \o data \o <<")">>

\* output[i] for the i-th declared output key
Item(out, i) == <<DeviceOf(out), "item", ToString(i - 1)>> \o Tail(out)

\* op.forward raises for this op
Raises(op) == op.fn = "raise"

(***************************************************************************)
(* Mappings. A batch handed to _forward_batch is a chain of mapping        *)
(* objects of the heap: <<name>> for a dict, <<overlay, base>> for         *)
(* ChainMap({}, base). Reads take the first mapping that has the key,      *)
(* writes go to the first mapping.                                         *)
(***************************************************************************)
Put(m, k, v) == [j \in DOMAIN m \cup {k} |-> IF j = k THEN v ELSE m[j]]

RECURSIVE ChainKeys(_, _, _)
ChainKeys(heap, chain, i) ==
    IF i > Len(chain) THEN {} ELSE DOMAIN heap[chain[i]] \cup ChainKeys(heap, chain, i + 1)

HasKey(heap, chain, k) == k \in ChainKeys(heap, chain, 1)

RECURSIVE ChainGet(_, _, _, _)
ChainGet(heap, chain, k, i) ==
    IF k \in DOMAIN heap[chain[i]] THEN heap[chain[i]][k]
    ELSE ChainGet(heap, chain, k, i + 1)

Get(heap, chain, k) == ChainGet(heap, chain, k, 1)

Set(heap, chain, k, v) == [heap EXCEPT ![chain[1]] = Put(@, k, v)]

\* the mapping a chain shows
View(heap, chain) == [k \in ChainKeys(heap, chain, 1) |-> Get(heap, chain, k)]

(***************************************************************************)
(* Helpers of fastestimator.op                                             *)
(***************************************************************************)
\* the value under a declared key; an absent key gives the None sentinel
KeyValue(heap, chain, k) ==
    IF k # None /\ HasKey(heap, chain, k) THEN Get(heap, chain, k) ELSE PyNone

\* get_inputs_by_op(op, batch, data): the values under the declared input
\* keys, or the prior data when the op declares no inputs
get_inputs_by_op(op, heap, chain, data) ==
    IF ~Truthy(op.inputs) THEN data
    ELSE IF op.inputs.t = "str" THEN KeyValue(heap, chain, op.inputs.ks[1])
    ELSE PyList([j \in DOMAIN op.inputs.ks |-> KeyValue(heap, chain, op.inputs.ks[j])])

\* write_outputs_by_key(batch, data, op.outputs): one value under a str key,
\* the i-th part under the i-th key of a list
RECURSIVE WriteItems(_, _, _, _, _)
WriteItems(heap, chain, out, keys, i) ==
    IF i > Len(keys) THEN heap
    ELSE WriteItems(Set(heap, chain, keys[i], Item(out, i)), chain, out, keys, i + 1)

write_outputs_by_key(heap, chain, out, outputs) ==
    IF outputs.t = "str" THEN Set(heap, chain, outputs.ks[1], out)
    ELSE WriteItems(heap, chain, out, outputs.ks, 1)

\* the op an element of the op list stands for in this epoch (NoneOp when a
\* Scheduler has nothing for it)
ResolveOp(op, epoch) ==
    IF IsScheduler(op)
    THEN IF epoch + 1 \in DOMAIN op.epoch_dict THEN op.epoch_dict[epoch + 1] ELSE NoneOp
    ELSE op

ActiveIn(op, mode) == ~IsNone(op) /\ (op.mode = {} \/ mode \in op.mode)

\* get_ops_by_mode(ops, mode): Schedulers resolved for the current epoch,
\* then filtered by mode, in declaration order
RECURSIVE OpsByModeFrom(_, _, _, _)
OpsByModeFrom(oplist, mode, epoch, i) ==
    IF i > Len(oplist) THEN <<>>
    ELSE (IF ActiveIn(ResolveOp(oplist[i], epoch), mode)
          THEN <<ResolveOp(oplist[i], epoch)>> ELSE <<>>)
         \o OpsByModeFrom(oplist, mode, epoch, i + 1)

get_ops_by_mode(oplist, mode, epoch) == OpsByModeFrom(oplist, mode, epoch, 1)

(***************************************************************************)
(* BaseNetwork._forward_batch                                              *)
(***************************************************************************)
\* one entry of the execution log: the op that ran, what it was given, the
\* tape and the gradient scope it ran under, what it returned, and the
\* working batch before and after it
Ran(op, data, st, scope, out, view, after) ==
    [fn |-> op.fn, data |-> data, tape |-> st.tape, scope |-> scope,
     inputs |-> op.inputs, outputs |-> op.outputs,
     out |-> out, view |-> view, after |-> after]

\* what op.forward leaves behind when it raises
Raised == <<"raised">>

\* a variant of Propagate that swallows the exception and ends the loop
Propagate_Swallows(r, entry) == [r EXCEPT !.ran = Append(@, entry)]

\* an exception of op.forward leaves the loop and _forward_batch
Propagate(r, entry) == [r EXCEPT !.ran = Append(@, entry), !.err = "OpError"]

\* a variant of WriteBack without the test of op.outputs
WriteBack_Unguarded(heap, chain, out, op) ==
    IF Truthy(op.outputs) THEN write_outputs_by_key(heap, chain, out, op.outputs)
    ELSE Set(heap, chain, None, out)

\* if op.outputs: write_outputs_by_key(batch, data, op.outputs)
WriteBack(heap, chain, out, op) ==
    IF Truthy(op.outputs) THEN write_outputs_by_key(heap, chain, out, op.outputs)
    ELSE heap

\* the loop body for the op at position i; r carries heap, data, ran, err
RECURSIVE ForwardLoop(_, _, _, _, _, _)
ForwardLoop(r, chain, st, scope, oplist, i) ==
    IF i > Len(oplist) THEN r
    ELSE LET op == oplist[i]
             din == get_inputs_by_op(op, r.heap, chain, r.data)
             view == View(r.heap, chain)
         IN IF Raises(op)
            THEN Propagate(r, Ran(op, din, st, scope, Raised, view, view))
            ELSE LET out == Forward(op, din)
                     heap2 == WriteBack(r.heap, chain, out, op)
                     entry == Ran(op, din, st, scope, out, view, View(heap2, chain))
                 IN ForwardLoop([r EXCEPT !.heap = heap2, !.data = out,
                                          !.ran = Append(@, entry)],
                                chain, st, scope, oplist, i + 1)

\* a variant of _forward_batch whose loop skips the first op
forward_batch_SkipsFirst(heap, chain, st, scope, oplist) ==
    ForwardLoop([heap |-> heap, data |-> PyNone, ran |-> <<>>, err |-> ""],
                chain, st, scope, oplist, 2)

_forward_batch(heap, chain, st, scope, oplist) ==
    ForwardLoop([heap |-> heap, data |-> PyNone, ran |-> <<>>, err |-> ""],
                chain, st, scope, oplist, 1)

(***************************************************************************)
(* run_step                                                                *)
(***************************************************************************)
\* a variant of NewBatch that copies every entry of the caller's batch
NewBatch_Everything(net, b) == b

\* new_batch: the caller's entries under the effective input keys
NewBatch(net, b) == [k \in net.effective_inputs \cap DOMAIN b |-> b[k]]

\* the mapping objects alive during one run_step
NewHeap(net, b) == [caller |-> b, new_batch |-> NewBatch(net, b), overlay |-> EmptyMap]

\* a variant of ForwardStepBatch: the caller's batch itself is passed on
ForwardStepBatch_Caller == <<"caller">>

\* the batch argument run_step passes to the forward step
ForwardStepBatch == <<"new_batch">>

\* a variant of Extract that returns the whole working batch
Extract_Everything(heap, chain, effective_outputs) == View(heap, chain)

\* prediction[key] = batch[key] for the effective outputs present in the batch
Extract(heap, chain, effective_outputs) ==
    [k \in {j \in effective_outputs : HasKey(heap, chain, j)} |-> Get(heap, chain, k)]

\* what a forward step hands back: the exception or the prediction, the state
\* mapping as it leaves it, the heap, the log, and the working batch before
\* the first op and after the last
StepResult(err, prediction, st, r, chain, before) ==
    [err |-> err, prediction |-> prediction, state |-> st, heap |-> r.heap,
     ran |-> r.ran, before |-> before, work |-> View(r.heap, chain)]

\* a variant of TorchScope that disables gradients in eval mode only
TorchScope_EvalOnly(mode) == IF mode = "eval" THEN "no_grad" ELSE "NonContext"

\* with torch.no_grad() if mode != "train" else NonContext()
TorchScope(mode) == IF mode # "train" THEN "no_grad" ELSE "NonContext"

\* a variant of MoveBack that returns the values where they are
MoveBack_Stays(net, picked) == picked

\* value = value.to("cpu") for every extracted value when the device is cuda
MoveBack(net, picked) ==
    IF net.device = "cuda" THEN [k \in DOMAIN picked |-> To(picked[k], "cpu")]
    ELSE picked

\* TorchNetwork._forward_step
Torch_forward_step(net, heap, chain, st, oplist, effective_outputs) ==
    LET st1 == [st EXCEPT !.tape = "NonContext"]
        heap1 == IF net.device = "cuda"
                 THEN [heap EXCEPT ![chain[1]] =
                          [k \in DOMAIN @ |-> To(@[k], net.device)]]
                 ELSE heap
        scope == TorchScope(st.mode)
        r == _forward_batch(heap1, chain, st1, scope, oplist)
        picked == Extract(r.heap, chain, effective_outputs)
        prediction == MoveBack(net, picked)
    IN IF r.err # ""
       THEN StepResult(r.err, EmptyMap, st1, r, chain, View(heap1, chain))
       ELSE StepResult("", prediction, st1, r, chain, View(heap1, chain))

\* TorchNetwork.run_step
Torch_run_step(net, b, st, epoch) ==
    Torch_forward_step(net, NewHeap(net, b), ForwardStepBatch, st,
                       get_ops_by_mode(net.ops, st.mode, epoch), net.effective_outputs)

\* TFNetwork._forward_step_eager
TF_forward_step_eager(net, heap, chain, st, oplist, effective_outputs) ==
    LET overlay == <<"overlay">> \o chain
        tape == IF st.mode = "train" THEN "GradientTape" ELSE "NonContext"
        st1 == [st EXCEPT !.tape = tape]
        r == _forward_batch(heap, overlay, st1, tape, oplist)
        st2 == [st1 EXCEPT !.tape = "absent"]
    IN IF r.err # ""
       THEN StepResult(r.err, EmptyMap, st1, r, overlay, View(heap, overlay))
       ELSE StepResult("", Extract(r.heap, overlay, effective_outputs), st2, r,
                       overlay, View(heap, overlay))

\* to_list(self.effective_outputs): the keys of the set in some order
RECURSIVE ListOfSet(_)
ListOfSet(S) ==
    IF S = {} THEN <<>>
    ELSE LET k == CHOOSE j \in S : TRUE IN <<k>> \o ListOfSet(S \ {k})

\* a variant of ExtractList that stops after the first key of the list
ExtractList_FirstOnly(heap, chain, keylist, i, prediction) ==
    IF keylist # <<>> /\ HasKey(heap, chain, keylist[1])
    THEN Put(prediction, keylist[1], Get(heap, chain, keylist[1]))
    ELSE prediction

\* the extraction loop of the static step over the list of effective outputs
RECURSIVE ExtractList(_, _, _, _, _)
ExtractList(heap, chain, keylist, i, prediction) ==
    IF i > Len(keylist) THEN prediction
    ELSE ExtractList(heap, chain, keylist, i + 1,
                     IF HasKey(heap, chain, keylist[i])
                     THEN Put(prediction, keylist[i], Get(heap, chain, keylist[i]))
                     ELSE prediction)

\* TFNetwork._forward_step_static
TF_forward_step_static(net, heap, chain, st, oplist, effective_outputs) ==
    LET overlay == <<"overlay">> \o chain
        tape == IF st.mode = "train" THEN "GradientTape" ELSE "NonContext"
        st1 == [st EXCEPT !.tape = tape]
        r == _forward_batch(heap, overlay, st1, tape, oplist)
        st2 == [st1 EXCEPT !.tape = "absent"]
    IN IF r.err # ""
       THEN StepResult(r.err, EmptyMap, st1, r, overlay, View(heap, overlay))
       ELSE StepResult("", ExtractList(r.heap, overlay, effective_outputs, 1, EmptyMap),
                       st2, r, overlay, View(heap, overlay))

\* TFNetwork.run_step
TF_run_step(net, b, st, debug, epoch) ==
    IF debug
    THEN TF_forward_step_eager(net, NewHeap(net, b), ForwardStepBatch, st,
             get_ops_by_mode(net.ops, st.mode, epoch), net.effective_outputs)
    ELSE TF_forward_step_static(net, NewHeap(net, b), ForwardStepBatch, st,
             get_ops_by_mode(net.ops, st.mode, epoch), ListOfSet(net.effective_outputs))

\* network.run_step(batch, state, debug)
run_step(net, b, st, debug, epoch) ==
    IF net.strategy = "TFNetwork" THEN TF_run_step(net, b, st, debug, epoch)
    ELSE Torch_run_step(net, b, st, epoch)

(***************************************************************************)
(* build and _fe_compile                                                   *)
(*                                                                         *)
(* An optimizer argument is a name (a str) or an optimizer instance. An    *)
(* optimizer object is a record: its backend, its kind (the registry name  *)
(* it was created from, or "instance"), its identity, and whether          *)
(* zero_grad() was called on it. An optimizer created from a name is a new *)
(* object; its identity is the position of the pair that created it in the *)
(* build call, and "old" once the record of that call is dropped.          *)
(***************************************************************************)
OptName(n) == [t |-> "name", v |-> n]
OptInstance(o) == [t |-> "instance", v |-> o]

\* the keys of tf_optimizer_fn and pytorch_optimizer_fn
Registry == {"adadelta", "adagrad", "adam", "adamax", "rmsprop", "sgd"}

\* isinstance(optimizer, tf.optimizers.Optimizer) / torch.optim.Optimizer
InstanceBackend(o) == IF o = "tf_opt" THEN "tensorflow" ELSE "pytorch"

\* a variant of NewOptimizer that hands out one shared object per name
NewOptimizer_SharedPerName(framework, name, idx) ==
    [backend |-> framework, kind |-> name, id |-> name, zero_grad |-> FALSE]

\* tf_optimizer_fn[name]() / pytorch_optimizer_fn[name](params=...)
NewOptimizer(framework, name, idx) ==
    [backend |-> framework, kind |-> name, id |-> ToString(idx), zero_grad |-> FALSE]

\* the optimizer object an instance argument refers to
InstanceOptimizer(o) ==
    [backend |-> InstanceBackend(o), kind |-> "instance", id |-> o, zero_grad |-> FALSE]

\* a variant of _fe_compile that sets the compiled flag before its checks
_fe_compile_FlagFirst(mods, m, optimizer, idx) ==
    LET flagged == [mods EXCEPT ![m].fe_compiled = TRUE] IN
    IF ~IsTFModel(m) /\ ~IsTorchModel(m)
    THEN [err |-> "ValueError: unrecognized model format", mods |-> flagged]
    ELSE IF optimizer.t = "name" /\ optimizer.v \notin Registry
    THEN [err |-> "KeyError", mods |-> flagged]
    ELSE LET framework == IF IsTFModel(m) THEN "tensorflow" ELSE "pytorch"
             opt == IF optimizer.t = "name"
                    THEN NewOptimizer(framework, optimizer.v, idx)
                    ELSE InstanceOptimizer(optimizer.v)
         IN IF opt.backend # framework
            THEN [err |-> "AssertionError: optimizer", mods |-> flagged]
            ELSE [err |-> "",
                  mods |-> [flagged EXCEPT
                              ![m].optimizer =
                                  [opt EXCEPT !.zero_grad = (framework = "pytorch")]]]

\* a variant of _fe_compile that leaves a model that is already compiled alone
_fe_compile_KeepsFirst(mods, m, optimizer, idx) ==
    IF ~IsTFModel(m) /\ ~IsTorchModel(m)
    THEN [err |-> "ValueError: unrecognized model format", mods |-> mods]
    ELSE IF optimizer.t = "name" /\ optimizer.v \notin Registry
    THEN [err |-> "KeyError", mods |-> mods]
    ELSE LET framework == IF IsTFModel(m) THEN "tensorflow" ELSE "pytorch"
             opt == IF optimizer.t = "name"
                    THEN NewOptimizer(framework, optimizer.v, idx)
                    ELSE InstanceOptimizer(optimizer.v)
         IN IF opt.backend # framework
            THEN [err |-> "AssertionError: optimizer", mods |-> mods]
            ELSE IF mods[m].fe_compiled THEN [err |-> "", mods |-> mods]
            ELSE [err |-> "",
                  mods |-> [mods EXCEPT
                              ![m].optimizer =
                                  [opt EXCEPT !.zero_grad = (framework = "pytorch")],
                              ![m].fe_compiled = TRUE]]

\* _fe_compile(model, optimizer) for the pair at position idx
_fe_compile(mods, m, optimizer, idx) ==
    IF ~IsTFModel(m) /\ ~IsTorchModel(m)
    THEN [err |-> "ValueError: unrecognized model format", mods |-> mods]
    ELSE LET framework == IF IsTFModel(m) THEN "tensorflow" ELSE "pytorch" IN
         IF optimizer.t = "name" /\ optimizer.v \notin Registry
         THEN [err |-> "KeyError", mods |-> mods]
         ELSE LET opt == IF optimizer.t = "name"
                         THEN NewOptimizer(framework, optimizer.v, idx)
                         ELSE InstanceOptimizer(optimizer.v)
              IN IF opt.backend # framework
                 THEN [err |-> "AssertionError: optimizer", mods |-> mods]
                 ELSE [err |-> "",
                       mods |-> [mods EXCEPT
                                   ![m].optimizer =
                                       [opt EXCEPT !.zero_grad = (framework = "pytorch")],
                                   ![m].fe_compiled = TRUE]]

\* the loop of build from position idx on; stops at the first exception
RECURSIVE CompileLoop(_, _, _, _)
CompileLoop(mods, ms, optimizers, idx) ==
    IF idx > Len(ms) \/ idx > Len(optimizers) THEN [err |-> "", mods |-> mods]
    ELSE LET r == _fe_compile(mods, ms[idx], optimizers[idx], idx) IN
         IF r.err # "" THEN r
         ELSE CompileLoop(r.mods, ms, optimizers, idx + 1)

\* a variant of build without the assertion on the lengths (zip stops at the
\* shorter list)
build_NoLengthCheck(mods, ms, optimizers) == CompileLoop(mods, ms, optimizers, 1)

\* build(model, optimizer) with the two arguments as lists (to_list)
build(mods, ms, optimizers) ==
    IF Len(ms) # Len(optimizers) THEN [err |-> "AssertionError: lengths", mods |-> mods]
    ELSE CompileLoop(mods, ms, optimizers, 1)

\* the model objects once the record of the last build call is dropped
Aged(mods) ==
    [m \in DOMAIN mods |->
        IF mods[m].optimizer.kind \in Registry
        THEN [mods[m] EXCEPT !.optimizer.id = "old"]
        ELSE mods[m]]

(***************************************************************************)
(* Idle values of the variables an operation does not use                  *)
(***************************************************************************)
NoRet == [op |-> "", err |-> ""]
NoTrace == [kind |-> "none"]
NoState == [mode |-> "", tape |-> "absent"]

(***************************************************************************)
(* Dependency analysis of bounded op lists (SpecKeys)                      *)
(***************************************************************************)
KeyInDecls == {KNone, KStr("x"), KStr("xy"), KList(<<"y", "x">>)}
KeyOutDecls == {KNone, KStr("x"), KStr("xy"), KList(<<"y">>)}
KeyPlainOps ==
    {MkOp("op", "f", i, o, {}, NoModel) : i \in KeyInDecls, o \in KeyOutDecls}
        \cup {MkOp("op", "f", KNone, KList(<<"z", "x">>), {"train"}, NoModel)}
\* the variants that declare their outputs as a list take part in eval only
KeyVariants ==
    {NoneOp} \cup {MkOp("op", "f", i, o, IF o.t = "list" THEN {"eval"} ELSE {}, NoModel) :
                      i \in {KNone, KStr("y")}, o \in {KNone, KStr("xy"), KList(<<"y">>)}}
KeySchedulers == {MkScheduler(<<a, b>>) : a \in KeyVariants, b \in KeyVariants}
KeyOpLists == SeqsUpTo(KeyPlainOps \cup KeySchedulers, MaxOps)

InitKeys ==
    /\ ops \in KeyOpLists
    /\ network = NoNetwork
    /\ cuda = FALSE
    /\ batch = EmptyMap
    /\ state = NoState
    /\ ret = NoRet
    /\ models = NewModels
    /\ trace = NoTrace
    /\ events = <<>>
    /\ dataset = <<>>

\* BaseNetwork(ops, models) on the op list
Analyze ==
    /\ network.status = "none"
    /\ network' = BaseNetwork("base", ops, {})
    /\ ret' = [op |-> "BaseNetwork", err |-> network'.err]
    /\ UNCHANGED <<ops, cuda, batch, state, models, trace, events, dataset>>

NextKeys == Analyze

SpecKeys == InitKeys /\ [][NextKeys]_vars

(***************************************************************************)
(* The effective inputs as the specification words them                    *)
(***************************************************************************)
Declared(d) == Range(to_list(d)) \ {None}

HasScheduler(oplist) == \E i \in DOMAIN oplist : IsScheduler(oplist[i])

\* the non-None variants of a Scheduler declare one and the same outputs
VariantsAgree(op) ==
    \A a, b \in Range(NonNoneVariants(op)) : a.outputs = b.outputs

DeclaredInputs(op) ==
    IF IsScheduler(op)
    THEN UNION {Declared(v.inputs) : v \in Range(NonNoneVariants(op))}
    ELSE Declared(op.inputs)

CountedAsProduced(op) ==
    IF IsScheduler(op)
    THEN IF VariantsAgree(op)
         THEN UNION {Declared(v.outputs) : v \in Range(NonNoneVariants(op))}
         ELSE {}
    ELSE Declared(op.outputs)

NeverProducedBefore(oplist) ==
    {k \in UNION {DeclaredInputs(oplist[i]) : i \in DOMAIN oplist} :
        \E i \in DOMAIN oplist :
            /\ k \in DeclaredInputs(oplist[i])
            /\ \A j \in 1..(i - 1) : k \notin CountedAsProduced(oplist[j])}

Analyzed == ret.op = "BaseNetwork"

\* C1: for an op list without Scheduler, get_effective_input_keys returns
\* exactly the keys that some op declares as an input while no earlier op
\* declares them as an output, None removed.
C1_EffectiveInputsNoScheduler ==
    (Analyzed /\ ~HasScheduler(ops)) =>
        /\ network.status = "ok"
        /\ network.effective_inputs = NeverProducedBefore(ops)

\* C1 witness: a two-op list where the second op reads a key the first one
\* writes (hidden) and reads a key it writes itself (reported).
C1_Witness ==
    /\ Analyzed /\ ~HasScheduler(ops) /\ Len(ops) = 2
    /\ \E k \in Declared(ops[2].inputs) :
          k \in Declared(ops[1].outputs) /\ k \notin network.effective_inputs
    /\ \E k \in Declared(ops[2].inputs) :
          k \in Declared(ops[2].outputs) /\ k \in network.effective_inputs

\* C2 (as claimed): with a Scheduler in the list, the output keys its
\* non-None variants all declare count as produced for every later op, and
\* when the variants disagree none of its output keys counts as produced.
C2_SchedulerOutputsAsClaimed ==
    (/\ Analyzed /\ HasScheduler(ops)
     /\ \A i \in DOMAIN ops :
           IsScheduler(ops[i]) =>
               /\ NonNoneVariants(ops[i]) # <<>>
               /\ \A v \in Range(NonNoneVariants(ops[i])) : Declared(v.outputs) # {}) =>
        /\ network.status = "ok"
        /\ network.effective_inputs = NeverProducedBefore(ops)


\* the output keys an element of the op list declares, in any of its variants
DeclaredOutputs(op) ==
    IF IsScheduler(op)
    THEN UNION {Declared(op.epoch_dict[j].outputs) :
                   j \in {n \in DOMAIN op.epoch_dict : ~IsNone(op.epoch_dict[n])}}
    ELSE Declared(op.outputs)

\* C14: get_all_output_keys returns exactly the union of the output keys of
\* every plain op and of every non-none variant of every Scheduler of the
\* list, None removed, whatever the mode sets and whether or not the variants
\* of a Scheduler agree; all_outputs of a constructed engine is that set.
C14_AllOutputKeys ==
    Analyzed =>
        /\ get_all_output_keys(ops) = UNION {DeclaredOutputs(ops[i]) : i \in DOMAIN ops}
        /\ network.status = "ok" => network.all_outputs = get_all_output_keys(ops)

\* C14 witness: an engine built from a Scheduler whose two variants declare
\* different outputs, one of them restricted to a mode, and an op without
\* outputs.
C14_Witness ==
    /\ Analyzed /\ network.status = "ok" /\ Len(ops) = 2
    /\ IsScheduler(ops[1]) /\ ~VariantsAgree(ops[1])
    /\ \E j \in DOMAIN ops[1].epoch_dict : ops[1].epoch_dict[j].mode # {}
    /\ ops[2].outputs = KNone
    /\ Cardinality(network.all_outputs) = 2

\* a Scheduler all of whose epoch variants are none
AllNone(op) == IsScheduler(op) /\ NonNoneVariants(op) = <<>>

\* C19 (as claimed): the analysis of a list whose Schedulers have none
\* variants only completes without error, and such a Scheduler adds nothing
\* to the effective inputs and nothing to the produced keys.
C19_AllNoneSchedulerCompletes ==
    (/\ Analyzed
     /\ \E i \in DOMAIN ops : AllNone(ops[i])
     /\ \A i \in DOMAIN ops : IsScheduler(ops[i]) => AllNone(ops[i])) =>
        /\ network.status = "ok"
        /\ network.effective_inputs = NeverProducedBefore(ops)

(***************************************************************************)
(* The engine on bounded op lists (SpecNet): construction by Network(ops), *)
(* collaborators registering effective outputs, and run_step calls         *)
(***************************************************************************)
OpA(m) == MkOp("modelop", "f", KList(<<"x">>), KList(<<"y">>), {}, m)
OpB == MkOp("op", "g", KList(<<"y">>), KList(<<"z">>), {"train"}, NoModel)
OpOverwrite == MkOp("op", "h", KStr("x"), KStr("x"), {}, NoModel)
OpUpdate == MkOp("updateop", "u", KStr("y"), KNone, {"train"}, "m_torch2")
OpNoInput == MkOp("op", "p", KNone, KStr("z"), {}, NoModel)
OpRaising == MkOp("op", "raise", KStr("x"), KStr("y"), {"eval"}, NoModel)
OpOther == MkOp("modelop", "o", KNone, KNone, {"eval"}, "m_other")

RunOps ==
    {OpA("m_tf"), OpA("m_torch"), OpB, OpOverwrite, OpUpdate, OpRaising, OpOther,
     MkScheduler(<<OpA("m_tf"), NoneOp>>),
     MkScheduler(<<OpB, OpNoInput>>)}

MaxRunOps == 2       \* longest op list of the engine runs

RunOpLists == SeqsUpTo(RunOps, MaxRunOps)

Modes == {"train", "eval", "test"}
Epochs == {0, 1}
RunKeys == {"y", "z"}

\* the batches a caller passes: q is a key no op declares
MkBatch(S) == [k \in S |-> Tensor(k)]
RunBatches == {MkBatch(S) : S \in {{"x", "q"}, {"y"}}}

InitNet ==
    /\ ops \in RunOpLists
    /\ network = NoNetwork
    /\ cuda \in BOOLEAN
    /\ batch = EmptyMap
    /\ state = NoState
    /\ ret = NoRet
    /\ models = NewModels
    /\ trace = NoTrace
    /\ events = <<>>
    /\ dataset = <<>>

\* network = Network(ops)
NetworkCall(has_to, reached) ==
    /\ network.status = "none"
    /\ network' = Network(ops, cuda, has_to)
    /\ models' = ModelsAfterNetwork(models, ops, network', cuda, reached)
    /\ ret' = [op |-> "Network", err |-> network'.err]
    /\ UNCHANGED <<ops, cuda, batch, state, trace, events, dataset>>

Idle == network.status = "ok" /\ ret.op # "run_step"

\* a collaborator adds a key to network.effective_outputs
AddEffectiveOutput(k) ==
    /\ Idle
    /\ k \notin network.effective_outputs
    /\ network' = [network EXCEPT !.effective_outputs = @ \cup {k}]
    /\ UNCHANGED <<ops, cuda, batch, state, ret, models, trace, events, dataset>>

\* network.run_step(b, {"mode": mode}, debug) during the given epoch
RunStep(b, mode, debug, epoch) ==
    /\ Idle
    /\ \E r \in {run_step(network, b, [mode |-> mode, tape |-> "absent"], debug, epoch)} :
          /\ batch' = r.heap.caller
          /\ state' = r.state
          /\ ret' = [op |-> "run_step", err |-> r.err, prediction |-> r.prediction,
                     ran |-> r.ran, before |-> r.before, work |-> r.work,
                     batch_in |-> b, mode |-> mode, debug |-> debug, epoch |-> epoch]
    /\ UNCHANGED <<ops, network, cuda, models, trace, events, dataset>>

\* the caller takes the result of the finished call and drops its record
Discard ==
    /\ ret.op \in {"run_step", "build"}
    /\ batch' = EmptyMap
    /\ state' = NoState
    /\ ret' = NoRet
    /\ models' = Aged(models)
    /\ UNCHANGED <<ops, network, cuda, trace, events, dataset>>

NextNet ==
    \/ \E has_to \in BOOLEAN, reached \in SUBSET ModelIds : NetworkCall(has_to, reached)
    \/ Discard
    \/ \E k \in RunKeys : AddEffectiveOutput(k)
    \/ \E b \in RunBatches, mode \in Modes, debug \in BOOLEAN, epoch \in Epochs :
          RunStep(b, mode, debug, epoch)

SpecNet == InitNet /\ [][NextNet]_vars


(***************************************************************************)
(* Properties of the engine                                                *)
(***************************************************************************)
Returned == ret.op = "run_step" /\ ret.err = ""

RanFns == [i \in DOMAIN ret.ran |-> ret.ran[i].fn]

\* C3: the keys of the mapping run_step returns are exactly the effective
\* outputs present in the working batch after the ops ran, in every strategy
\* and mode; a produced key outside effective_outputs is never returned.
C3_ResultKeys ==
    Returned => DOMAIN ret.prediction = network.effective_outputs \cap DOMAIN ret.work

\* C3 witness: a step returned some key while an op produced another key
\* that is not an effective output.
C3_Witness ==
    /\ Returned
    /\ DOMAIN ret.prediction # {}
    /\ \E k \in DOMAIN ret.work \ DOMAIN ret.before : k \notin network.effective_outputs

\* the fn of the ops that take part in a step, in declaration order
RECURSIVE ActiveFnsFrom(_, _, _, _)
ActiveFnsFrom(oplist, mode, epoch, i) ==
    IF i > Len(oplist) THEN <<>>
    ELSE LET op == ResolveOp(oplist[i], epoch) IN
         (IF ~IsNone(op) /\ (op.mode = {} \/ mode \in op.mode) THEN <<op.fn>> ELSE <<>>)
         \o ActiveFnsFrom(oplist, mode, epoch, i + 1)

\* f(x) and g(f(x)) of the two-op scenario, on the device of the engine
ScenarioX == To(Tensor("x"), network.device)
ScenarioFX(m) == Item(Forward(OpA(m), PyList(<<ScenarioX>>)), 1)
ScenarioGFX(m) == Item(Forward(OpB, PyList(<<ScenarioFX(m)>>)), 1)

\* C4: an op runs iff its mode set is empty or holds state.mode, the active
\* ops run in declaration order and see the outputs of earlier ops: for
\* [OpA(x -> y, all modes), OpB(y -> z, train)], eval with effective outputs
\* {y} runs OpA alone and returns {y: f(x)}, and train with effective outputs
\* {z} runs both and returns {z: g(f(x))}.
C4_ActiveOpsInOrder ==
    Returned =>
        /\ RanFns = ActiveFnsFrom(network.ops, ret.mode, ret.epoch, 1)
        /\ \A m \in {"m_tf", "m_torch"} :
              (ops = <<OpA(m), OpB>> /\ "x" \in DOMAIN ret.batch_in) =>
                  /\ (ret.mode = "eval" /\ network.effective_outputs = {"y"}) =>
                        /\ RanFns = <<"f">>
                        /\ ret.prediction = ("y" :> To(ScenarioFX(m), "cpu"))
                  /\ (ret.mode = "train" /\ network.effective_outputs = {"z"}) =>
                        /\ RanFns = <<"f", "g">>
                        /\ ret.prediction = ("z" :> To(ScenarioGFX(m), "cpu"))

\* C4 witness: the train step of the scenario returned z.
C4_Witness ==
    /\ Returned
    /\ ops = <<OpA("m_tf"), OpB>>
    /\ ret.mode = "train"
    /\ network.effective_outputs = {"z"}
    /\ DOMAIN ret.prediction = {"z"}

\* C5: run_step leaves the caller's batch mapping as it was: the same keys
\* bound to the same values, in both strategies.
C5_CallerBatchUntouched ==
    ret.op = "run_step" => batch = ret.batch_in

\* C5 witness: a TorchNetwork step on the accelerator in which one op
\* overwrote the input key x and another wrote a new key.
C5_Witness ==
    /\ Returned
    /\ network.strategy = "TorchNetwork" /\ network.device = "cuda"
    /\ "x" \in DOMAIN ret.batch_in
    /\ \E i \in DOMAIN ret.ran : ret.ran[i].fn = "h"
    /\ ret.work["x"] # ret.batch_in["x"]
    /\ DOMAIN ret.work \ DOMAIN ret.batch_in # {}

\* C6 (as claimed): a state passed without tape field has no tape field when
\* run_step returns, in every strategy and mode.
C6_TapeAbsentAfterRunStep ==
    Returned => state.tape = "absent"

\* the models of the ModelOps and UpdateOps of a list, Schedulers included
ListedModels(oplist) ==
    {m \in ModelIds :
        \E i \in DOMAIN oplist :
            \/ IsModelOp(oplist[i]) /\ oplist[i].model = m
            \/ /\ IsScheduler(oplist[i])
               /\ \E j \in DOMAIN oplist[i].epoch_dict :
                     IsModelOp(oplist[i].epoch_dict[j]) /\ oplist[i].epoch_dict[j].model = m}

ListedBackends(oplist) ==
    {b \in {"tensorflow", "pytorch"} :
        \E m \in ListedModels(oplist) :
            \/ b = "tensorflow" /\ IsTFModel(m)
            \/ b = "pytorch" /\ IsTorchModel(m)}

\* C7: Network(ops) fails, giving no engine, when the list (Schedulers
\* included) has no ModelOp/UpdateOp model and when its models belong to
\* more than one backend; an engine comes only from models of one backend.
C7_ConstructionFails ==
    network.status # "none" =>
        /\ ListedModels(ops) = {} => network.status = "error"
        /\ Cardinality(ListedBackends(ops)) > 1 => network.status = "error"
        /\ network.status = "ok" => Cardinality(ListedBackends(ops)) = 1

\* C7 witness: a construction failed on a list whose models, one of them
\* inside a Scheduler, belong to both backends.
C7_Witness ==
    /\ network.status = "error"
    /\ Cardinality(ListedBackends(ops)) = 2
    /\ \E i \in DOMAIN ops : IsScheduler(ops[i]) /\ ModelsOf(ops[i]) # {}


\* C11: the gradient scope of the forward pass depends only on the mode.
\* Every op of a TFNetwork step (eager or static) runs under a recording
\* GradientTape iff state.mode is train and under the no-op scope otherwise;
\* every op of a TorchNetwork step runs under no_grad iff state.mode is not
\* train.
C11_GradientScopeByMode ==
    ret.op = "run_step" =>
        \A i \in DOMAIN ret.ran :
            /\ network.strategy = "TFNetwork" =>
                  /\ ret.ran[i].scope = "GradientTape" <=> ret.mode = "train"
                  /\ ret.mode # "train" => ret.ran[i].scope = "NonContext"
            /\ network.strategy = "TorchNetwork" =>
                  /\ ret.ran[i].scope = "no_grad" <=> ret.mode # "train"
                  /\ ret.mode = "train" => ret.ran[i].scope = "NonContext"

\* C11 witness: a step in a mode that is neither train nor eval ran an op of
\* a TorchNetwork under no_grad.
C11_Witness ==
    /\ ret.op = "run_step"
    /\ network.strategy = "TorchNetwork"
    /\ ret.mode = "test"
    /\ ret.ran # <<>>
    /\ ret.ran[1].scope = "no_grad"

\* what run_step gives on the inputs of the last call with the other value
\* of debug
OtherSubPath ==
    run_step(network, ret.batch_in, [mode |-> ret.mode, tape |-> "absent"],
             ~ret.debug, ret.epoch)

C13_DeviceTransfer ==
    (ret.op = "run_step" /\ network.strategy = "TorchNetwork") =>
        /\ network.device = (IF cuda THEN "cuda" ELSE "cpu")
        /\ cuda =>
              /\ \A k \in DOMAIN ret.before : DeviceOf(ret.before[k]) = "cuda"
              /\ Returned => \A k \in DOMAIN ret.prediction :
                                 DeviceOf(ret.prediction[k]) = "cpu"
        /\ ~cuda =>
              /\ ret.before = NewBatch(network, ret.batch_in)
              /\ Returned => \A k \in DOMAIN ret.prediction :
                                 ret.prediction[k] = ret.work[k]

\* C13 witness: a step on the accelerator returned a value that an op had
\* computed on the accelerator from a moved input.
C13_Witness ==
    /\ Returned
    /\ network.strategy = "TorchNetwork" /\ cuda
    /\ "x" \in DOMAIN ret.before
    /\ "y" \in DOMAIN ret.prediction
    /\ DeviceOf(ret.work["y"]) = "cuda"
    /\ DeviceOf(ret.prediction["y"]) = "cpu"


\* the value mentions the caller's tensor of key k
Mentions(v, k) == k \in Range(v)

\* C15: at the start of every run_step the working batch holds exactly the
\* keys that are effective inputs and present in the caller's batch, bound
\* to the caller's values (on the device of the engine); no op is given, and
\* no working batch holds, the caller's value of a key outside the effective
\* inputs; an effective input absent from the caller's batch raises nothing:
\* a step fails only when an op raises.
C15_WorkingBatchAtStart ==
    ret.op = "run_step" =>
        /\ DOMAIN ret.before = network.effective_inputs \cap DOMAIN ret.batch_in
        /\ \A k \in DOMAIN ret.before :
              ret.before[k] = To(ret.batch_in[k], network.device)
        /\ \A k \in DOMAIN ret.batch_in \ network.effective_inputs :
              \A i \in DOMAIN ret.ran :
                  /\ ~Mentions(ret.ran[i].data, k)
                  /\ \A j \in DOMAIN ret.ran[i].view : ~Mentions(ret.ran[i].view[j], k)
        /\ ret.err # "" => ret.ran # <<>> /\ ret.ran[Len(ret.ran)].fn = "raise"

\* C15 witness: the caller passed y alone, which is no effective input, the
\* effective input x was absent, and an op that declares y as input ran on
\* the y an earlier op produced.
C15_Witness ==
    /\ Returned
    /\ DOMAIN ret.batch_in = {"y"}
    /\ network.effective_inputs = {"x"}
    /\ ret.before = EmptyMap
    /\ \E i \in DOMAIN ret.ran : ret.ran[i].inputs = KList(<<"y">>)

\* the position of the first raising op among the active ops
FirstRaise(act) ==
    CHOOSE i \in DOMAIN act : act[i] = "raise" /\ \A j \in 1..(i - 1) : act[j] # "raise"

\* C16: when the forward of an active op raises, run_step ends with that
\* error and returns no mapping; the ops before the raising one ran, the
\* raising op was invoked once and no later op ran, in every strategy.
C16_OpErrorPropagates ==
    ret.op = "run_step" =>
        LET act == ActiveFnsFrom(network.ops, ret.mode, ret.epoch, 1) IN
        IF \E i \in DOMAIN act : act[i] = "raise"
        THEN /\ ret.err = "OpError"
             /\ ret.prediction = EmptyMap
             /\ RanFns = SubSeq(act, 1, FirstRaise(act))
             /\ Cardinality({i \in DOMAIN ret.ran : ret.ran[i].fn = "raise"}) = 1
        ELSE ret.err = ""

\* C16 witness: a raising op came after an op that ran and before nothing
\* else ran, in the compiled sub-path of a TFNetwork whose effective output
\* the first op had already written.
C16_Witness ==
    /\ ret.op = "run_step" /\ ret.err = "OpError"
    /\ network.strategy = "TFNetwork" /\ ~ret.debug
    /\ RanFns = <<"f", "raise">>
    /\ "y" \in network.effective_outputs
    /\ "y" \in DOMAIN ret.work

\* C18: an op that declares no outputs writes nothing: the working batch
\* after it equals the working batch before it, and what it returned is the
\* prior data of the next op (which receives it when it declares no inputs).
C18_NoOutputsNoWrite ==
    ret.op = "run_step" =>
        \A i \in DOMAIN ret.ran :
            (~Truthy(ret.ran[i].outputs) /\ ret.ran[i].out # Raised) =>
                /\ ret.ran[i].after = ret.ran[i].view
                /\ (i + 1 \in DOMAIN ret.ran /\ ~Truthy(ret.ran[i + 1].inputs)) =>
                       ret.ran[i + 1].data = ret.ran[i].out

\* C18 witness: an op without outputs ran on a non-empty working batch and
\* the next op, which declares no inputs, received what it had returned.
C18_Witness ==
    /\ Returned
    /\ Len(ret.ran) = 2
    /\ ret.ran[1].outputs = KNone /\ ret.ran[1].view # EmptyMap
    /\ ret.ran[2].inputs = KNone
    /\ ret.ran[2].data = ret.ran[1].out
    /\ ret.ran[2].after # ret.ran[2].view

\* the engine holds the analysis of its op list, made at construction
AnalysisCached ==
    network.status = "ok" =>
        /\ network.ops = ops
        /\ network.effective_inputs = get_effective_input_keys(ops).val
        /\ network.all_outputs = get_all_output_keys(ops)

\* C20: effective_inputs and all_outputs are those computed at construction;
\* a run_step call changes neither of them nor effective_outputs nor the op
\* list; effective_outputs is empty right after construction, and while it
\* is empty run_step returns the empty mapping.
C20_RunStepLeavesEngine ==
    /\ [](/\ AnalysisCached
          /\ (Returned /\ network.effective_outputs = {}) => ret.prediction = EmptyMap)
    /\ [][/\ (network.status = "none" /\ network'.status = "ok") =>
                 network'.effective_outputs = {}
          /\ (ret'.op = "run_step" /\ ret.op # "run_step") =>
                 (network' = network /\ ops' = ops)]_vars

\* C20 witness: a step on a freshly built engine whose ops wrote a key
\* returned the empty mapping.
C20_Witness ==
    /\ Returned
    /\ network.effective_outputs = {}
    /\ ret.prediction = EmptyMap
    /\ DOMAIN ret.work \ DOMAIN ret.before # {}


(***************************************************************************)
(* Registration of models (SpecBuild): build calls on bounded lists        *)
(***************************************************************************)
MaxBuild == 2        \* longest model list and optimizer list of a build call

BuildModels == {"m_tf", "m_torch", "m_other"}
BuildOptimizers ==
    {OptName("adam"), OptName("sgd"), OptName("foo"),
     OptInstance("tf_opt"), OptInstance("torch_opt")}

InitBuild ==
    /\ ops = <<>>
    /\ network = NoNetwork
    /\ cuda = FALSE
    /\ batch = EmptyMap
    /\ state = NoState
    /\ ret = NoRet
    /\ models = NewModels
    /\ trace = NoTrace
    /\ events = <<>>
    /\ dataset = <<>>

\* build(ms, optimizers)
Build(ms, optimizers) ==
    /\ ret.op # "build"
    /\ \E r \in {build(models, ms, optimizers)} :
          /\ models' = r.mods
          /\ ret' = [op |-> "build", err |-> r.err, ms |-> ms, optimizers |-> optimizers,
                     before |-> models,
                     value |-> IF r.err # "" THEN <<>>
                               ELSE IF Len(ms) = 1 THEN <<ms[1]>> ELSE ms,
                     single |-> (r.err = "" /\ Len(ms) = 1)]
    /\ UNCHANGED <<ops, network, cuda, batch, state, trace, events, dataset>>

NextBuild ==
    \/ \E ms \in SeqsUpTo(BuildModels, MaxBuild),
          optimizers \in SeqsUpTo(BuildOptimizers, MaxBuild) : Build(ms, optimizers)
    \/ Discard

SpecBuild == InitBuild /\ [][NextBuild]_vars

(***************************************************************************)
(* Properties of registration                                              *)
(***************************************************************************)
BuildCall == ret.op = "build"
BuildOk == BuildCall /\ ret.err = ""
BackendOf(m) == IF IsTFModel(m) THEN "tensorflow" ELSE "pytorch"
Unchanged(m) ==
    /\ models[m].optimizer = ret.before[m].optimizer
    /\ models[m].fe_compiled = ret.before[m].fe_compiled

\* the optimizer object is the instance given, or was created from the name given
FromArg(opt, arg) ==
    IF arg.t = "name" THEN opt.kind = arg.v
    ELSE opt.kind = "instance" /\ opt.id = arg.v

\* ... and, for a name, it is the object created for position i
CreatedAt(opt, arg, i) ==
    FromArg(opt, arg) /\ (arg.t = "name" => opt.id = ToString(i))

\* the last position of the model list that holds the model of position i
LastPosition(i) ==
    CHOOSE j \in i..Len(ret.ms) :
        /\ ret.ms[j] = ret.ms[i]
        /\ \A k \in (j + 1)..Len(ret.ms) : ret.ms[k] # ret.ms[i]

\* C8: after a build call that failed because an optimizer instance of one
\* backend was paired with a model of the other backend, no model passed to
\* the call (earlier ones of the same list included) has had its optimizer
\* attached or its compiled flag set.
C8_NoModelMutatedOnBackendMismatch ==
    (BuildCall /\ ret.err = "AssertionError: optimizer")
        => \A i \in 1..Len(ret.ms) : Unchanged(ret.ms[i])

\* C9: a build call whose model list and optimizer list differ in length
\* fails, and every model keeps the optimizer attribute and the compiled flag
\* it had before the call.
C9_LengthMismatchMutatesNothing ==
    (BuildCall /\ Len(ret.ms) # Len(ret.optimizers))
        => /\ ret.err = "AssertionError: lengths"
           /\ \A m \in ModelIds : Unchanged(m)

\* a failed call of unequal lengths whose first pair could have been
\* compiled, on a model that was registered before with another optimizer
C9_Witness ==
    /\ BuildCall
    /\ Len(ret.ms) = 2 /\ Len(ret.optimizers) = 1
    /\ ret.ms[1] = "m_tf"
    /\ ret.optimizers[1] = OptName("sgd")
    /\ ret.before["m_tf"].fe_compiled
    /\ ret.before["m_tf"].optimizer.kind = "adam"
    /\ ret.err # ""

\* C10 as stated: after a successful build every model of the list holds the
\* optimizer built from or equal to the optimizer of its own position, and
\* its compiled flag is true.
C10_PairedByPositionAsClaimed ==
    BuildOk =>
        \A i \in 1..Len(ret.ms) :
            /\ FromArg(models[ret.ms[i]].optimizer, ret.optimizers[i])
            /\ models[ret.ms[i]].fe_compiled

\* C10 (amended): after a successful build every model of the list holds the
\* optimizer of the last position at which the model appears (its own
\* position when the models are pairwise distinct): the instance given there,
\* or the object created there from the name; the optimizer is of the
\* model's own backend, optimizers created from names for different models
\* are different objects, and every model's compiled flag is true.
C10_PairedByLastPosition ==
    BuildOk =>
        /\ Len(ret.ms) = Len(ret.optimizers)
        /\ \A i \in 1..Len(ret.ms) :
              LET m == ret.ms[i]
                  j == LastPosition(i)
              IN /\ CreatedAt(models[m].optimizer, ret.optimizers[j], j)
                 /\ models[m].optimizer.backend = BackendOf(m)
                 /\ models[m].fe_compiled
        /\ \A i, j \in 1..Len(ret.ms) :
              (/\ ret.ms[i] # ret.ms[j]
               /\ ret.optimizers[i].t = "name"
               /\ ret.optimizers[j].t = "name")
                  => models[ret.ms[i]].optimizer.id # models[ret.ms[j]].optimizer.id

\* two different models registered with the same name in one successful call
C10_Witness ==
    /\ BuildOk
    /\ ret.ms = <<"m_tf", "m_torch">>
    /\ ret.optimizers = <<OptName("adam"), OptName("adam")>>
    /\ models["m_tf"].optimizer.backend = "tensorflow"
    /\ models["m_torch"].optimizer.backend = "pytorch"
    /\ models["m_torch"].optimizer.zero_grad

\* the pair at position i cannot be registered
BadPair(i) ==
    \/ ~IsTFModel(ret.ms[i]) /\ ~IsTorchModel(ret.ms[i])
    \/ ret.optimizers[i].t = "name" /\ ret.optimizers[i].v \notin Registry
    \/ /\ ret.optimizers[i].t = "instance"
       /\ InstanceBackend(ret.optimizers[i].v) # BackendOf(ret.ms[i])

\* the first position of the call whose pair cannot be registered
FirstBad ==
    CHOOSE i \in 1..Len(ret.ms) : BadPair(i) /\ \A j \in 1..(i - 1) : ~BadPair(j)

\* the models as the pairs before position i leave them
AfterPairsBefore(i) ==
    CompileLoop(ret.before, SubSeq(ret.ms, 1, i - 1), SubSeq(ret.optimizers, 1, i - 1), 1).mods

C21_RebuildReplacesOptimizer ==
    BuildCall =>
        /\ \A m \in ModelIds : ret.before[m].fe_compiled => models[m].fe_compiled
        /\ (Len(ret.ms) = Len(ret.optimizers) /\ \A i \in 1..Len(ret.ms) : ~BadPair(i)) =>
              /\ ret.err = ""
              /\ \A i \in 1..Len(ret.ms) :
                    ret.before[ret.ms[i]].fe_compiled =>
                        /\ CreatedAt(models[ret.ms[i]].optimizer,
                                     ret.optimizers[LastPosition(i)], LastPosition(i))
                        /\ models[ret.ms[i]].optimizer.id # "old"
                        /\ models[ret.ms[i]].fe_compiled

\* C21 witness: a model registered with adam by an earlier call was
\* registered again with sgd.
C21_Witness ==
    /\ BuildOk
    /\ ret.ms = <<"m_torch">>
    /\ ret.optimizers = <<OptName("sgd")>>
    /\ ret.before["m_torch"].fe_compiled
    /\ ret.before["m_torch"].optimizer.kind = "adam"
    /\ models["m_torch"].optimizer.kind = "sgd"

(***************************************************************************)
(* ReduceLROnPlateau (trace/adapt/reduce_lr_on_plateau.py)                 *)
(*                                                                         *)
(* Numbers are integers: a learning rate or a metric value is a multiple   *)
(* of the smallest step a Python float resolves here; the values a         *)
(* float32 can hold are the multiples of F32Step. np.Inf is a number above *)
(* every metric value.                                                     *)
(***************************************************************************)
F32Step == 4
Inf == 100

\* a / b rounded to the nearest integer, ties to the even one
RoundDiv(a, b) ==
    LET q == a \div b
        r == a % b
    IN IF 2 * r < b THEN q
       ELSE IF 2 * r > b THEN q + 1
       ELSE IF q % 2 = 0 THEN q ELSE q + 1

\* np.float32(x)
Float32(x) == RoundDiv(x, F32Step) * F32Step

\* factor * lr in Python floats; a factor is a fraction num/den
Mul(factor, x) == RoundDiv(factor.num * x, factor.den)

Max(a, b) == IF a >= b THEN a ELSE b

\* get_lr(model) / set_lr(model, lr): the learning rate of the model's
\* optimizer, kept with the trace object here
get_lr(tr) == tr.lr
set_lr(tr, lr) == [tr EXCEPT !.lr = lr]

\* np.less / np.greater, chosen by best_mode
monitor_op(tr, a, b) == IF tr.best_mode = "min" THEN a < b ELSE a > b

\* ReduceLROnPlateau(model, metric, patience, factor, best_mode, min_lr) on a
\* model whose learning rate is lr
ReduceLROnPlateau(patience, factor, best_mode, min_lr, lr) ==
    [kind |-> "ReduceLROnPlateau", patience |-> patience, factor |-> factor,
     best_mode |-> best_mode, min_lr |-> min_lr, wait |-> 0,
     best |-> IF best_mode = "min" THEN Inf ELSE -Inf, lr |-> lr]

\* a variant of on_epoch_end that does not reset wait after a reduction
on_epoch_end_KeepsWaiting(tr, metric) ==
    IF monitor_op(tr, metric, tr.best)
    THEN [trace |-> [tr EXCEPT !.best = metric, !.wait = 0], set |-> FALSE]
    ELSE IF tr.wait + 1 >= tr.patience
    THEN [trace |-> [set_lr(tr, Max(tr.min_lr, Float32(Mul(tr.factor, get_lr(tr)))))
                       EXCEPT !.wait = tr.wait + 1],
          set |-> TRUE]
    ELSE [trace |-> [tr EXCEPT !.wait = tr.wait + 1], set |-> FALSE]

\* ReduceLROnPlateau.on_epoch_end(data) with data[metric] = metric: the trace
\* afterwards and whether set_lr was called
on_epoch_end(tr, metric) ==
    IF monitor_op(tr, metric, tr.best)
    THEN [trace |-> [tr EXCEPT !.best = metric, !.wait = 0], set |-> FALSE]
    ELSE IF tr.wait + 1 >= tr.patience
    THEN [trace |-> [set_lr(tr, Max(tr.min_lr, Float32(Mul(tr.factor, get_lr(tr)))))
                       EXCEPT !.wait = 0],
          set |-> TRUE]
    ELSE [trace |-> [tr EXCEPT !.wait = tr.wait + 1], set |-> FALSE]

(***************************************************************************)
(* Epochs of a ReduceLROnPlateau trace (SpecLR)                            *)
(***************************************************************************)
MaxEpochs == 5       \* on_epoch_end calls delivered to one trace
MaxPatience == 3     \* largest patience

Factors == {[num |-> 1, den |-> 2], [num |-> 1, den |-> 1]}
BestModes == {"min", "max"}
MinLRs == {4}
StartLRs == {1, 6, 16}
Metrics == {1, 2, 3}

InitLR ==
    /\ ops = <<>>
    /\ network = NoNetwork
    /\ cuda = FALSE
    /\ batch = EmptyMap
    /\ state = NoState
    /\ ret = NoRet
    /\ models = NewModels
    /\ trace \in {ReduceLROnPlateau(p, f, b, m, lr) :
                     p \in 1..MaxPatience, f \in Factors, b \in BestModes,
                     m \in MinLRs, lr \in StartLRs}
    /\ events = <<>>
    /\ dataset = <<>>

\* trace.on_epoch_end(data) at the end of an epoch whose metric is given
OnEpochEnd(metric) ==
    /\ trace.kind = "ReduceLROnPlateau"
    /\ Len(events) < MaxEpochs
    /\ \E r \in {on_epoch_end(trace, metric)} :
          /\ trace' = r.trace
          /\ events' = Append(events, [metric |-> metric, set |-> r.set,
                                       lr_before |-> get_lr(trace),
                                       lr_after |-> get_lr(r.trace)])
          /\ ret' = [op |-> "on_epoch_end", err |-> ""]
    /\ UNCHANGED <<ops, network, cuda, batch, state, models, dataset>>

NextLR == \E metric \in Metrics : OnEpochEnd(metric)

SpecLR == InitLR /\ [][NextLR]_vars

(***************************************************************************)
(* Properties of ReduceLROnPlateau                                         *)
(***************************************************************************)
\* the metric of epoch k is better than every metric before it
Improved(k) ==
    \A j \in 1..(k - 1) :
        IF trace.best_mode = "min" THEN events[k].metric < events[j].metric
        ELSE events[k].metric > events[j].metric

\* the number of consecutive epochs without improvement that end with epoch
\* k, counted from the last improvement or the last call of set_lr
RECURSIVE Streak(_)
Streak(k) ==
    IF k = 0 THEN 0
    ELSE IF Improved(k) THEN 0
    ELSE IF k > 1 /\ events[k - 1].set THEN 1
    ELSE Streak(k - 1) + 1

\* C22: the learning rate is set, and so can change, at an on_epoch_end only
\* when that epoch is the patience-th consecutive epoch without improvement
\* since the last improvement or the last reduction; after every call wait
\* is in 0..patience-1; an improving epoch sets wait to 0 and best to its
\* metric (patience >= 1).
C22_ReducesAtPatience ==
    trace.kind = "ReduceLROnPlateau" =>
        /\ \A k \in DOMAIN events :
              /\ events[k].set <=> Streak(k) = trace.patience
              /\ events[k].lr_after # events[k].lr_before => events[k].set
        /\ trace.wait \in 0..(trace.patience - 1)
        /\ (events # <<>> /\ Improved(Len(events))) =>
              /\ trace.wait = 0
              /\ trace.best = events[Len(events)].metric

\* C22 witness: with patience 2 the rate was reduced at the third epoch and,
\* the count having restarted there, again at the fifth.
C22_Witness ==
    /\ trace.kind = "ReduceLROnPlateau" /\ trace.patience = 2
    /\ Len(events) = 5
    /\ Improved(1) /\ events[3].set /\ ~events[4].set /\ events[5].set
    /\ events[3].lr_after < events[3].lr_before

\* C23 (as claimed): every learning rate the trace sets is at least min_lr
\* and not higher than the learning rate the model had before that call.
C23_SetRateWithinBounds ==
    trace.kind = "ReduceLROnPlateau" =>
        \A k \in DOMAIN events :
            events[k].set =>
                /\ events[k].lr_after >= trace.min_lr
                /\ events[k].lr_after <= events[k].lr_before

(***************************************************************************)
(* Accuracy and ConfusionMatrix (trace/metric)                             *)
(*                                                                         *)
(* A batch is y_true, a vector of class labels, and y_pred, an array of    *)
(* rows of cols columns: class scores when cols > 1, one value in halves   *)
(* (1 is 0.5) when cols = 1.                                               *)
(***************************************************************************)
Classes == {0, 1}

MkMetricBatch(y_true, rows, cols) == [y_true |-> y_true, rows |-> rows, cols |-> cols]

\* np.argmax of one row: the first position of its largest entry, from 0
ArgMax(row) ==
    (CHOOSE i \in DOMAIN row :
        /\ \A j \in DOMAIN row : row[j] <= row[i]
        /\ \A j \in 1..(i - 1) : row[j] < row[i]) - 1

\* y_pred after the argmax or np.round of on_batch_end, one class per row
PredClasses(b) ==
    [i \in DOMAIN b.rows |->
        IF b.cols > 1 THEN ArgMax(b.rows[i]) ELSE RoundDiv(b.rows[i][1], 2)]

\* assert y_pred.size == y_true.size
SizesAgree(b) == Len(b.rows) = Len(b.y_true)

\* np.sum(y_pred.ravel() == y_true.ravel())
Hits(b) == Cardinality({i \in DOMAIN b.rows : PredClasses(b)[i] = b.y_true[i]})

\* Accuracy(true_key, pred_key); correct is a Python int until the first
\* np.sum is added to it
Accuracy == [kind |-> "Accuracy", total |-> 0, correct |-> 0, correct_np |-> FALSE]

\* a variant of Accuracy_on_epoch_begin that resets total only
Accuracy_on_epoch_begin_KeepsCorrect(tr) == [tr EXCEPT !.total = 0]

Accuracy_on_epoch_begin(tr) == [tr EXCEPT !.total = 0, !.correct = 0, !.correct_np = FALSE]

Accuracy_on_batch_end(tr, b) ==
    IF ~SizesAgree(b) THEN [err |-> "AssertionError", trace |-> tr]
    ELSE [err |-> "",
          trace |-> [tr EXCEPT !.correct = @ + Hits(b), !.correct_np = TRUE,
                               !.total = @ + Len(b.rows)]]

\* self.correct / self.total: a Python int divided by 0 raises, a numpy
\* integer divided by 0 gives nan
Accuracy_on_epoch_end(tr) ==
    IF tr.total = 0
    THEN IF tr.correct_np THEN [err |-> "", value |-> [kind |-> "nan"]]
         ELSE [err |-> "ZeroDivisionError", value |-> [kind |-> "nothing"]]
    ELSE [err |-> "", value |-> [kind |-> "ratio", num |-> tr.correct, den |-> tr.total]]

\* a matrix of counts over the labels 0..num_classes-1
ZeroMatrix == [c \in Classes \X Classes |-> 0]

\* sklearn confusion_matrix(y_true, y_pred, labels): the count of samples
\* per (true, predicted) pair; a sample with a class outside labels is left out
confusion_matrix(b) ==
    [c \in Classes \X Classes |->
        Cardinality({i \in DOMAIN b.rows :
                        b.y_true[i] = c[1] /\ PredClasses(b)[i] = c[2]})]

\* ConfusionMatrix(true_key, pred_key, num_classes); has_matrix is FALSE
\* while self.matrix is None
ConfusionMatrix == [kind |-> "ConfusionMatrix", has_matrix |-> FALSE, matrix |-> ZeroMatrix]

ConfusionMatrix_on_epoch_begin(tr) == [tr EXCEPT !.has_matrix = FALSE, !.matrix = ZeroMatrix]

ConfusionMatrix_on_batch_end(tr, b) ==
    IF ~SizesAgree(b) THEN [err |-> "AssertionError", trace |-> tr]
    ELSE [err |-> "",
          trace |-> [tr EXCEPT !.has_matrix = TRUE,
                               !.matrix = [c \in Classes \X Classes |->
                                              @[c] + confusion_matrix(b)[c]]]]

ConfusionMatrix_on_epoch_end(tr) ==
    IF tr.has_matrix THEN [err |-> "", value |-> [kind |-> "matrix", m |-> tr.matrix]]
    ELSE [err |-> "", value |-> [kind |-> "None"]]

(***************************************************************************)
(* Epochs of a metric trace (SpecMetric)                                   *)
(***************************************************************************)
MaxSamples == 2      \* samples, or empty batches, between two on_epoch_begin

Scores == {<<1, 1>>, <<1, 2>>}
Halves == {<<1>>, <<2>>, <<3>>}

\* what a batch takes of the epoch: its samples, and 1 when it has none
Cost(b) == Max(1, Max(Len(b.y_true), Len(b.rows)))

\* what the on_batch_end calls logged in events have taken
Used == IF events = <<>> THEN 0
        ELSE LET n[i \in 0..Len(events)] ==
                     IF i = 0 THEN 0 ELSE n[i - 1] + Cost(events[i])
             IN n[Len(events)]

MetricBatches(n) ==
    {MkMetricBatch(t, r, 2) : t \in SeqsUpTo(Classes, n), r \in SeqsUpTo(Scores, n)}
        \cup {MkMetricBatch(t, r, 1) : t \in SeqsUpTo(Classes, n), r \in SeqsUpTo(Halves, n)}

InitMetric ==
    /\ ops = <<>>
    /\ network = NoNetwork
    /\ cuda = FALSE
    /\ batch = EmptyMap
    /\ state = NoState
    /\ ret = NoRet
    /\ models = NewModels
    /\ trace \in {Accuracy, ConfusionMatrix}
    /\ events = <<>>
    /\ dataset = <<>>

\* trace.on_epoch_begin(data); the log of the epoch starts again
MetricEpochBegin ==
    /\ trace.kind \in {"Accuracy", "ConfusionMatrix"}
    /\ ret.op # "on_epoch_begin"
    /\ trace' = IF trace.kind = "Accuracy" THEN Accuracy_on_epoch_begin(trace)
                 ELSE ConfusionMatrix_on_epoch_begin(trace)
    /\ events' = <<>>
    /\ ret' = [op |-> "on_epoch_begin", err |-> ""]
    /\ UNCHANGED <<ops, network, cuda, batch, state, models, dataset>>

\* trace.on_batch_end(data) with the batch b in data
MetricBatchEnd(b) ==
    /\ trace.kind \in {"Accuracy", "ConfusionMatrix"}
    /\ Used + Cost(b) <= MaxSamples
    /\ \E r \in {IF trace.kind = "Accuracy" THEN Accuracy_on_batch_end(trace, b)
                  ELSE ConfusionMatrix_on_batch_end(trace, b)} :
          /\ trace' = r.trace
          /\ events' = Append(events, [y_true |-> b.y_true, rows |-> b.rows,
                                       cols |-> b.cols, err |-> r.err])
          /\ ret' = [op |-> "on_batch_end", err |-> r.err]
    /\ UNCHANGED <<ops, network, cuda, batch, state, models, dataset>>

\* trace.on_epoch_end(data): the value written under the output name
MetricEpochEnd ==
    /\ trace.kind \in {"Accuracy", "ConfusionMatrix"}
    /\ ret.op # "on_epoch_end"
    /\ \E r \in {IF trace.kind = "Accuracy" THEN Accuracy_on_epoch_end(trace)
                  ELSE ConfusionMatrix_on_epoch_end(trace)} :
          ret' = [op |-> "on_epoch_end", err |-> r.err, value |-> r.value]
    /\ UNCHANGED <<ops, network, cuda, batch, state, models, trace, events, dataset>>

NextMetric ==
    \/ MetricEpochBegin
    \/ \E b \in MetricBatches(MaxSamples - Used) : MetricBatchEnd(b)
    \/ MetricEpochEnd

SpecMetric == InitMetric /\ [][NextMetric]_vars

\* the on_batch_end calls since the last on_epoch_begin that did not raise
Accepted == SelectSeq(events, LAMBDA e : e.err = "")

\* the samples of these calls, and those of them predicted as labelled
EpochTotal ==
    LET n[i \in 0..Len(Accepted)] ==
            IF i = 0 THEN 0 ELSE n[i - 1] + Len(Accepted[i].rows)
    IN n[Len(Accepted)]

EpochHits ==
    LET n[i \in 0..Len(Accepted)] ==
            IF i = 0 THEN 0 ELSE n[i - 1] + Hits(Accepted[i])
    IN n[Len(Accepted)]

\* the samples of these calls labelled t and predicted p
EpochCount(t, p) ==
    LET n[i \in 0..Len(Accepted)] ==
            IF i = 0 THEN 0
            ELSE n[i - 1] + Cardinality({j \in DOMAIN Accepted[i].rows :
                                /\ Accepted[i].y_true[j] = t
                                /\ PredClasses(Accepted[i])[j] = p})
    IN n[Len(Accepted)]

\* C24: the value an Accuracy or ConfusionMatrix trace writes at on_epoch_end
\* is determined by the on_batch_end calls since the most recent
\* on_epoch_begin alone (the hits over the samples of these calls, the counts
\* per class pair of these calls); Accuracy keeps 0 <= correct <= total in
\* every state; and on_epoch_end after at least one on_batch_end of the epoch
\* writes correct / total and raises nothing.
C24_EpochMetric ==
    /\ trace.kind = "Accuracy" =>
          /\ 0 <= trace.correct /\ trace.correct <= trace.total
          /\ ret.op = "on_epoch_end" =>
                /\ Accepted # <<>> => ret.err = ""
                /\ ret.err = "" =>
                      ret.value = IF EpochTotal = 0 THEN [kind |-> "nan"]
                                  ELSE [kind |-> "ratio", num |-> EpochHits,
                                        den |-> EpochTotal]
    /\ (trace.kind = "ConfusionMatrix" /\ ret.op = "on_epoch_end") =>
          /\ ret.err = ""
          /\ ret.value = IF Accepted = <<>> THEN [kind |-> "None"]
                         ELSE [kind |-> "matrix",
                               m |-> [c \in Classes \X Classes |->
                                         EpochCount(c[1], c[2])]]

\* on_epoch_end of Accuracy after two batches of one sample, one of them a hit
C24_Witness ==
    /\ trace.kind = "Accuracy"
    /\ ret.op = "on_epoch_end"
    /\ Len(Accepted) = 2
    /\ ret.value = [kind |-> "ratio", num |-> 1, den |-> 2]

(***************************************************************************)
(* OpDataset (dataset/op_dataset.py)                                       *)
(*                                                                         *)
(* The wrapped dataset keeps its items as dict objects 1..size of a heap;  *)
(* self.dataset[index] hands out references to them: the item at index, or *)
(* for a BatchDataset the list of the item at index and the one after it.  *)
(***************************************************************************)
MkDataset(kind, mode, items) ==
    [kind |-> kind, mode |-> mode, size |-> Len(items), heap |-> items]

\* self.dataset[index]
DatasetItems(ds, index) ==
    IF ds.kind = "batch" THEN <<index, (index % ds.size) + 1>> ELSE <<index>>

\* a variant of deepcopy that hands the references on
deepcopy_Alias(ds, refs) == [heap |-> ds.heap, refs |-> refs]

\* deepcopy(self.dataset[index]): new objects with the contents of the old
deepcopy(ds, refs) ==
    [heap |-> [o \in DOMAIN ds.heap \cup {ds.size + r : r \in Range(refs)} |->
                  IF o \in DOMAIN ds.heap THEN ds.heap[o] ELSE ds.heap[o - ds.size]],
     refs |-> [i \in DOMAIN refs |-> ds.size + refs[i]]]

\* if op.outputs: write_outputs_by_op(op, item, op_data)
WriteOutputs(heap, ref, out, op) ==
    IF Truthy(op.outputs) THEN write_outputs_by_key(heap, <<ref>>, out, op.outputs)
    ELSE heap

\* OpDataset._forward(item) from the op at position i on
RECURSIVE DataForwardLoop(_, _, _, _, _)
DataForwardLoop(heap, ref, op_data, oplist, i) ==
    IF i > Len(oplist) THEN heap
    ELSE LET din == get_inputs_by_op(oplist[i], heap, <<ref>>, op_data)
             out == Forward(oplist[i], din)
         IN DataForwardLoop(WriteOutputs(heap, ref, out, oplist[i]), ref, out,
                            oplist, i + 1)

_forward(heap, ref, oplist) == DataForwardLoop(heap, ref, PyNone, oplist, 1)

\* for item in items: self._forward(item)
RECURSIVE ForwardItems(_, _, _, _)
ForwardItems(heap, refs, oplist, i) ==
    IF i > Len(refs) THEN heap
    ELSE ForwardItems(_forward(heap, refs[i], oplist), refs, oplist, i + 1)

\* {key: np.array([item[key] for item in items]) for key in items[0]}
Collate(heap, refs) ==
    IF \E i \in DOMAIN refs : ~(DOMAIN heap[refs[1]] \subseteq DOMAIN heap[refs[i]])
    THEN [err |-> "KeyError", value |-> EmptyMap]
    ELSE [err |-> "",
          value |-> [k \in DOMAIN heap[refs[1]] |->
                        PyList([i \in DOMAIN refs |-> heap[refs[i]][k]])]]

\* OpDataset.__getitem__(index): what it returns, and the wrapped dataset
\* after the call
getitem(ds, oplist, index) ==
    LET items == deepcopy(ds, DatasetItems(ds, index))
    IN IF ds.kind = "batch"
       THEN LET heap == ForwardItems(items.heap, items.refs, oplist, 1)
                r == Collate(heap, items.refs)
            IN [err |-> r.err, value |-> r.value,
                dataset |-> [ds EXCEPT !.heap = [o \in DOMAIN ds.heap |-> heap[o]]]]
       ELSE LET heap == _forward(items.heap, items.refs[1], oplist)
            IN [err |-> "", value |-> heap[items.refs[1]],
                dataset |-> [ds EXCEPT !.heap = [o \in DOMAIN ds.heap |-> heap[o]]]]

(***************************************************************************)
(* Fetches from an OpDataset (SpecData)                                    *)
(***************************************************************************)
MaxGets == 2         \* __getitem__ calls
MaxItems == 2        \* items of the wrapped dataset

OpSink == MkOp("op", "q", KStr("x"), KNone, {}, NoModel)
OpSwap == MkOp("op", "s", KList(<<"x", "y">>), KList(<<"y", "x">>), {}, NoModel)

DataOps == {OpOverwrite, OpNoInput, OpSink, OpSwap}

DataItems ==
    {Put(EmptyMap, "x", Tensor("a")),
     Put(EmptyMap, "x", Tensor("b")),
     Put(Put(EmptyMap, "x", Tensor("a")), "y", Tensor("b"))}

InitData ==
    /\ ops \in SeqsUpTo(DataOps, MaxOps)
    /\ network = NoNetwork
    /\ cuda = FALSE
    /\ batch = EmptyMap
    /\ state = NoState
    /\ ret = NoRet
    /\ models = NewModels
    /\ trace = NoTrace
    /\ events = <<>>
    /\ dataset \in {MkDataset(kind, mode, items) :
                        kind \in {"plain", "batch"}, mode \in {"train"},
                        items \in [1..MaxItems -> DataItems]}

\* op_dataset[index]; events logs the call with the wrapped dataset's items
\* before and after it
GetItem(index) ==
    /\ dataset.kind \in {"plain", "batch"}
    /\ Len(events) < MaxGets
    /\ \E r \in {getitem(dataset, ops, index)} :
          /\ dataset' = r.dataset
          /\ ret' = [op |-> "__getitem__", err |-> r.err, index |-> index,
                     value |-> r.value]
          /\ events' = Append(events, [index |-> index, err |-> r.err,
                                       value |-> r.value,
                                       before |-> dataset.heap,
                                       after |-> r.dataset.heap])
    /\ UNCHANGED <<ops, network, cuda, batch, state, models, trace>>

NextData == \E index \in 1..MaxItems : GetItem(index)

SpecData == InitData /\ [][NextData]_vars

\* C25: no __getitem__ call changes an item of the wrapped dataset, whatever
\* keys the ops overwrite, and two calls with the same index return equal
\* results.
C25_WrappedDatasetUntouched ==
    ret.op = "__getitem__" =>
        \A k \in DOMAIN events :
            /\ events[k].after = events[k].before
            /\ \A j \in DOMAIN events :
                  events[j].index = events[k].index =>
                      /\ events[j].err = events[k].err
                      /\ events[j].value = events[k].value

\* the same index fetched twice through an op that overwrites the key x
C25_Witness ==
    /\ ret.op = "__getitem__"
    /\ ret.err = ""
    /\ Len(events) = 2
    /\ events[1].index = events[2].index
    /\ OpOverwrite \in Range(ops)
    /\ ret.value["x"] # dataset.heap[ret.index]["x"]

====
